---- MODULE Spec2Model ----
(***************************************************************************)
(* Mixed-precision (FP16) training hooks of mmdet/core/fp16/hooks.py:      *)
(* Fp16PrepareHook.before_run, Fp16OptimizerHook.after_train_iter,         *)
(* copy_in_params, set_grad, wrap_fp16_model, patch_norm_fp32 and          *)
(* patch_forward_module.                                                   *)
(*                                                                         *)
(* A model is a tree of modules.  Module n is element n of the sequence    *)
(* `model`; its `parent` is a smaller index (0 for the root), so every     *)
(* ordered tree has a numbering.  Each module owns one parameter (data,    *)
(* grad, requires_grad, dtype).  Tensor values are integers, "inf" for a   *)
(* non-finite value, "none" for Python's None.                             *)
(***************************************************************************)
EXTENDS Integers, Sequences, FiniteSets, TLC

VARIABLES
    model,            \* runner.model.module: the module tree
    hook_optimizer,   \* Fp16PrepareHook.optimizer: the stored optimizer config
    runner_optimizer, \* runner.optimizer
    hook,             \* Fp16OptimizerHook's fields
    outputs,          \* runner.outputs
    scaled_loss,      \* local of after_train_iter
    peer,             \* what the other workers contribute to the all-reduce
    pc,               \* position of the run / of after_train_iter
    calls,            \* calls after_train_iter has made in this iteration
    iter,             \* iterations started
    snap,             \* parameter values when the iteration started
    failed,           \* the step that raised
    set_to_none,      \* whether the framework's zero_grad drops or zeroes a grad
    fwd               \* the last forward call and what it returned

vars == <<model, hook_optimizer, runner_optimizer, hook, outputs, scaled_loss,
          peer, pc, calls, iter, snap, failed, set_to_none, fwd>>

---------------------------------------------------------------------------
(* Bounds of the model *)

MaxNodes == 3        \* modules of a tree given to wrap_fp16_model
TrainNodes == 2      \* modules of the model that is trained
MaxIter == 2         \* training iterations of a run
MaxArgs == 1         \* positional arguments of a forward call

(* Numbers of the framework and of the run *)

HalfMax == 65504     \* largest finite torch.half value
HalfExact == 2048    \* below it every integer is a torch.half value
DefaultLossScale == 512
WorldSize == 2       \* workers of a distributed run
ClipMax == 1         \* the bound grad_clip asks for

---------------------------------------------------------------------------
(* Tensor values *)

Num(x) == [t |-> "num", v |-> x]
Inf == [t |-> "inf", v |-> 0]
NoneV == [t |-> "none", v |-> 0]

Abs(x) == IF x < 0 THEN -x ELSE x
Min(a, b) == IF a < b THEN a ELSE b

\* spacing of torch.half values around magnitude a
Ulp(a) ==
    IF a < HalfExact THEN 1
    ELSE IF a < 2 * HalfExact THEN 2
    ELSE IF a < 4 * HalfExact THEN 4
    ELSE IF a < 8 * HalfExact THEN 8
    ELSE IF a < 16 * HalfExact THEN 16
    ELSE 32

\* conversion of a number to torch.half: round to nearest, ties to even,
\* overflow to a non-finite value
ToHalf(a) ==
    IF a.t # "num" THEN a
    ELSE LET x == Abs(a.v)
             u == Ulp(x)
             q == x \div u
             r == x % u
             up == (2 * r > u) \/ (2 * r = u /\ q % 2 = 1)
             m == (IF up THEN q + 1 ELSE q) * u
         IN IF m > HalfMax THEN Inf
            ELSE IF a.v < 0 THEN Num(-m) ELSE Num(m)

\* tensor.to(dtype) / copy_ into a tensor of dtype
Cast(a, dtype) == IF dtype = "half" THEN ToHalf(a) ELSE a

Add(a, b) == IF a.t = "num" /\ b.t = "num" THEN Num(a.v + b.v) ELSE Inf
Mul(a, k) == IF a.t = "num" THEN Num(a.v * k) ELSE a
Div(a, k) == IF a.t = "num" THEN Num(a.v \div k) ELSE a
Neg(a) == IF a.t = "num" THEN Num(-a.v) ELSE a

---------------------------------------------------------------------------
(* The module tree *)

Nodes(m) == 1..Len(m)

RECURSIVE SortedSeq(_)
SortedSeq(S) ==
    IF S = {} THEN <<>>
    ELSE LET x == CHOOSE y \in S : \A z \in S : y <= z
         IN <<x>> \o SortedSeq(S \ {x})

\* module.children(), in registration order
Children(m, n) == SortedSeq({c \in Nodes(m) : m[c].parent = n})

RECURSIVE PreOrder(_, _)
RECURSIVE PreOrderAll(_, _)
\* module.modules() of the subtree at n: the module, then its children's subtrees
PreOrder(m, n) == <<n>> \o PreOrderAll(m, Children(m, n))
PreOrderAll(m, kids) ==
    IF kids = <<>> THEN <<>>
    ELSE PreOrder(m, Head(kids)) \o PreOrderAll(m, Tail(kids))

\* model.modules()
Modules(m) == PreOrder(m, 1)

\* model.parameters(): one parameter per module, in modules() order
Parameters(m) == Modules(m)

RECURSIVE HasNormAncestor(_, _)
HasNormAncestor(m, n) ==
    /\ m[n].parent # 0
    /\ \/ m[m[n].parent].kind = "norm"
       \/ HasNormAncestor(m, m[n].parent)

InSubtree(m, root, n) == \E i \in 1..Len(PreOrder(m, root)) : PreOrder(m, root)[i] = n

\* a parameter's tensor converted in place by module.half() / module.float()
ConvertParam(p, dtype) ==
    [p EXCEPT !.dtype = dtype,
              !.data = Cast(p.data, dtype),
              !.grad = Cast(p.grad, dtype)]

\* model.half(): every module of the tree
ModuleHalf(m) == [n \in Nodes(m) |-> ConvertParam(m[n], "half")]

\* module.float(): the module and every module below it
ModuleFloat(m, root) ==
    [n \in Nodes(m) |-> IF InSubtree(m, root, n) THEN ConvertParam(m[n], "float") ELSE m[n]]

\* module.forward = patch_forward_module(module.forward, torch.half, torch.float, True)
PatchForward(m, n) == [m EXCEPT ![n].forward = @ + 1]

RECURSIVE patch_norm_fp32(_, _)
RECURSIVE patch_norm_children(_, _)

\* a slip: the children of a module are not visited
patch_norm_fp32_no_children(m, n) ==
    IF m[n].kind = "norm" THEN PatchForward(ModuleFloat(m, n), n) ELSE m

patch_norm_fp32(m, n) ==
    LET m1 == IF m[n].kind = "norm" THEN PatchForward(ModuleFloat(m, n), n) ELSE m
    IN patch_norm_children(m1, Children(m1, n))

\* for child in module.children(): patch_norm_fp32(child)
patch_norm_children(m, kids) ==
    IF kids = <<>> THEN m
    ELSE patch_norm_children(patch_norm_fp32(m, Head(kids)), Tail(kids))

\* for m in model.modules(): if hasattr(m, 'fp16_enabled'): m.fp16_enabled = True
SetFp16Flags(m) ==
    [n \in Nodes(m) |-> IF m[n].has_flag THEN [m[n] EXCEPT !.fp16_enabled = TRUE] ELSE m[n]]

wrap_fp16_model(m) == SetFp16Flags(patch_norm_fp32(ModuleHalf(m), 1))

---------------------------------------------------------------------------
(* Forward calls *)

Tensor(dtype, x) == [tensor |-> TRUE, dtype |-> dtype, val |-> Num(x)]
NonTensor == [tensor |-> FALSE, dtype |-> "str", val |-> Num(0)]

\* the conversion of one tensor, or of anything else, by cast_tensor_type
CastTensor(x, src_type, dst_type) ==
    IF x.tensor /\ x.dtype = src_type
    THEN [x EXCEPT !.dtype = dst_type, !.val = Cast(x.val, dst_type)]
    ELSE x

\* cast_tensor_type on a tuple or a dict: the container with every item converted
cast_tensor_type(inputs, src_type, dst_type) ==
    [k \in DOMAIN inputs |-> CastTensor(inputs[k], src_type, dst_type)]

\* the values of a dict, as a tuple
KwValues(kwargs) == IF "k" \in DOMAIN kwargs THEN <<kwargs["k"]>> ELSE <<>>

\* the wrapped module's own forward: it returns what it was given
old_forward(args, kwargs) ==
    [output |-> args \o KwValues(kwargs),
     seen_args |-> args, seen_kwargs |-> kwargs, ncalls |-> 1]

RECURSIVE new_forward(_, _, _, _, _, _)

\* a slip: the output is converted in the direction of the inputs
new_forward_same_direction(depth, src_type, dst_type, convert_output, args, kwargs) ==
    LET a == cast_tensor_type(args, src_type, dst_type)
        k == cast_tensor_type(kwargs, src_type, dst_type)
        r == IF depth <= 1 THEN old_forward(a, k)
             ELSE new_forward(depth - 1, src_type, dst_type, convert_output, a, k)
    IN IF convert_output
       THEN [r EXCEPT !.output = cast_tensor_type(r.output, src_type, dst_type)]
       ELSE r

\* new_forward of patch_forward_module, `depth` wrappers around old_forward
new_forward(depth, src_type, dst_type, convert_output, args, kwargs) ==
    LET a == cast_tensor_type(args, src_type, dst_type)
        k == cast_tensor_type(kwargs, src_type, dst_type)
        r == IF depth <= 1 THEN old_forward(a, k)
             ELSE new_forward(depth - 1, src_type, dst_type, convert_output, a, k)
    IN IF convert_output
       THEN [r EXCEPT !.output = cast_tensor_type(r.output, dst_type, src_type)]
       ELSE r

\* module.forward(*args, **kwargs) of module n
module_forward(m, n, args, kwargs) ==
    IF m[n].forward = 0 THEN old_forward(args, kwargs)
    ELSE new_forward(m[n].forward, "half", "float", TRUE, args, kwargs)

---------------------------------------------------------------------------
(* Fp16PrepareHook.before_run *)

\* param.data.clone() for param in model.parameters(); `src` remembers which
\* module's parameter the clone was taken from and `ndiv` counts the divisions of
\* its gradient in the current iteration (neither is read by the hooks)
CloneParams(m) ==
    [i \in 1..Len(Parameters(m)) |->
        [data |-> m[Parameters(m)[i]].data, grad |-> NoneV, requires_grad |-> FALSE,
         src |-> Parameters(m)[i], ndiv |-> 0]]

\* for param, net_param in zip(param_copy, model.parameters()):
\*     param.requires_grad = net_param.requires_grad
CopyRequiresGrad(param_copy, m) ==
    [i \in 1..Len(param_copy) |->
        IF i <= Len(Parameters(m))
        THEN [param_copy[i] EXCEPT !.requires_grad = m[Parameters(m)[i]].requires_grad]
        ELSE param_copy[i]]

\* a slip: only the parameters that require a gradient are cloned
ParamCopyTrainable(m) ==
    LET all == CopyRequiresGrad(CloneParams(m), m)
    IN SelectSeq(all, LAMBDA p : p.requires_grad)

ParamCopy(m) == CopyRequiresGrad(CloneParams(m), m)

\* dict.pop(key) on a copy: the dict without the key
DictWithout(d, key) == [k \in DOMAIN d \ {key} |-> d[k]]

\* optimizer_cls(param_copy, **optimizer_cfg): one param group
BuildOptimizer(cls, kwargs, params) ==
    [cls |-> cls, kwargs |-> kwargs, params |-> params]

\* a slip: the model is converted before its parameters are cloned
before_run_clone_after_wrap(m, cfg) ==
    LET m2 == wrap_fp16_model(m)
        param_copy == ParamCopy(m2)
    IN [model |-> m2, hook_optimizer |-> cfg,
        optimizer |-> BuildOptimizer(cfg["type"], DictWithout(cfg, "type"), param_copy)]

\* the states before_run leaves: the model, self.optimizer and runner.optimizer
before_run(m, cfg) ==
    LET param_copy == ParamCopy(m)
        m2 == wrap_fp16_model(m)
        optimizer_cfg == cfg
        optimizer_type == optimizer_cfg["type"]
    IN [model |-> m2, hook_optimizer |-> cfg,
        optimizer |-> BuildOptimizer(optimizer_type, DictWithout(optimizer_cfg, "type"),
                                     param_copy)]

---------------------------------------------------------------------------
(* Fp16OptimizerHook.after_train_iter *)

HookPcs == {"zero_grad_model", "zero_grad_optimizer", "scale_loss", "backward",
            "set_grad", "allreduce_grads", "unscale", "clip_grads", "step",
            "copy_in_params"}

\* a slip: the gradients are all-reduced whatever `distributed` says
NextPcAlwaysReduce(p) ==
    CASE p = "zero_grad_model" -> "zero_grad_optimizer"
      [] p = "zero_grad_optimizer" -> "scale_loss"
      [] p = "scale_loss" -> "backward"
      [] p = "backward" -> "set_grad"
      [] p = "set_grad" -> "allreduce_grads"
      [] p = "allreduce_grads" -> "unscale"
      [] p = "unscale" -> IF hook.grad_clip # NoneV THEN "clip_grads" ELSE "step"
      [] p = "clip_grads" -> "step"
      [] p = "step" -> "copy_in_params"
      [] OTHER -> "idle"

\* a slip: the gradients are unscaled before they are copied
NextPcUnscaleFirst(p) ==
    CASE p = "zero_grad_model" -> "zero_grad_optimizer"
      [] p = "zero_grad_optimizer" -> "scale_loss"
      [] p = "scale_loss" -> "backward"
      [] p = "backward" -> "unscale"
      [] p = "unscale" -> "set_grad"
      [] p = "set_grad" -> IF hook.distributed THEN "allreduce_grads"
                           ELSE IF hook.grad_clip # NoneV THEN "clip_grads" ELSE "step"
      [] p = "allreduce_grads" -> IF hook.grad_clip # NoneV THEN "clip_grads" ELSE "step"
      [] p = "clip_grads" -> "step"
      [] p = "step" -> "copy_in_params"
      [] OTHER -> "idle"

\* the statement after statement p of after_train_iter
NextPc(p) ==
    CASE p = "zero_grad_model" -> "zero_grad_optimizer"
      [] p = "zero_grad_optimizer" -> "scale_loss"
      [] p = "scale_loss" -> "backward"
      [] p = "backward" -> "set_grad"
      [] p = "set_grad" -> IF hook.distributed THEN "allreduce_grads" ELSE "unscale"
      [] p = "allreduce_grads" -> "unscale"
      [] p = "unscale" -> IF hook.grad_clip # NoneV THEN "clip_grads" ELSE "step"
      [] p = "clip_grads" -> "step"
      [] p = "step" -> "copy_in_params"
      [] OTHER -> "idle"

\* a slip: the gradients of the last iteration are kept
ZeroGradKeep(p) == p

\* zero_grad on one parameter: a gradient is dropped or zeroed, as the framework does
ZeroGrad(p) ==
    IF p.grad = NoneV THEN p
    ELSE [p EXCEPT !.grad = IF set_to_none THEN NoneV ELSE Num(0)]

\* runner.model.zero_grad()
model_zero_grad(m) == [n \in Nodes(m) |-> ZeroGrad(m[n])]

\* runner.optimizer.zero_grad()
optimizer_zero_grad(w) == [i \in 1..Len(w) |-> ZeroGrad(w[i])]

\* a slip: the loss is scaled twice
scale_loss_twice(loss, loss_scale) == [loss EXCEPT !.scale = @ * loss_scale * loss_scale]

\* runner.outputs['loss'] * self.loss_scale
scale_loss(loss, loss_scale) == [loss EXCEPT !.scale = @ * loss_scale]

\* scaled_loss.backward(): every parameter the loss depends on, and that requires a
\* gradient, accumulates scale * (its gradient of the loss) in its own precision
backward(m, sl) ==
    [n \in Nodes(m) |->
        IF sl.g[n] # NoneV /\ m[n].requires_grad
        THEN LET contrib == Cast(Mul(sl.g[n], sl.scale), m[n].dtype)
             IN [m[n] EXCEPT !.grad = IF @ = NoneV THEN contrib
                                      ELSE Cast(Add(@, contrib), m[n].dtype)]
        ELSE m[n]]

\* set_grad(fp16_net, fp32_weight), its first k pairs
set_grad(m, w, k) ==
    [i \in 1..Len(w) |->
        IF i <= Min(k, Len(Parameters(m))) /\ m[Parameters(m)[i]].grad # NoneV
        THEN \* a missing grad is allocated (uninitialized), then copy_ overwrites it
             [w[i] EXCEPT !.grad = Cast(m[Parameters(m)[i]].grad, "float")]
        ELSE w[i]]

\* allreduce_grads(fp32_weight, coalesce, bucket_size_mb): the gradients that exist
\* are averaged with those of the other workers
allreduce_grads(w, peers) ==
    [i \in 1..Len(w) |->
        IF w[i].requires_grad /\ w[i].grad # NoneV
        THEN [w[i] EXCEPT !.grad = Div(Add(@, peers), WorldSize)]
        ELSE w[i]]

\* a slip: the values are divided, not the gradients
unscale_data(w, loss_scale, k) ==
    [i \in 1..Len(w) |->
        IF i <= k /\ w[i].grad # NoneV
        THEN [w[i] EXCEPT !.data = Div(@, loss_scale), !.ndiv = @ + 1]
        ELSE w[i]]

\* for p in fp32_weight: if p.grad is not None: p.grad.div_(self.loss_scale)
unscale(w, loss_scale, k) ==
    [i \in 1..Len(w) |->
        IF i <= k /\ w[i].grad # NoneV
        THEN [w[i] EXCEPT !.grad = Div(@, loss_scale), !.ndiv = @ + 1]
        ELSE w[i]]

Clamp(a, bound) ==
    IF a.t # "num" THEN a
    ELSE IF a.v > bound THEN Num(bound)
    ELSE IF a.v < -bound THEN Num(-bound)
    ELSE a

\* self.clip_grads(fp32_weight): the gradients of the parameters that require one
\* are brought within the bound
clip_grads(w, bound) ==
    [i \in 1..Len(w) |->
        IF w[i].requires_grad /\ w[i].grad # NoneV
        THEN [w[i] EXCEPT !.grad = Clamp(@, bound)]
        ELSE w[i]]

\* runner.optimizer.step(), its first k parameters: gradient descent
optimizer_step(w, lr, k) ==
    [i \in 1..Len(w) |->
        IF i <= k /\ w[i].grad # NoneV
        THEN [w[i] EXCEPT !.data = Add(@, Neg(Mul(w[i].grad, lr)))]
        ELSE w[i]]

\* a slip: nothing is copied back
copy_in_params_nothing(m, w, k) == m

\* copy_in_params(fp16_net, fp32_weight), its first k pairs
copy_in_params(m, w, k) ==
    [n \in Nodes(m) |->
        LET at == {i \in 1..Min(k, Min(Len(w), Len(Parameters(m)))) : Parameters(m)[i] = n}
        IN IF at = {} THEN m[n]
           ELSE [m[n] EXCEPT !.data = Cast(w[CHOOSE i \in at : TRUE].data, m[n].dtype)]]

---------------------------------------------------------------------------
(* Initial states *)

Kinds == {"norm", "other"}

InitData(n) == Num(2049 * n)

NewModule(n, parent, kind, has_flag, requires_grad) ==
    [parent |-> parent, kind |-> kind, has_flag |-> has_flag, fp16_enabled |-> FALSE,
     forward |-> 0, dtype |-> "float", data |-> InitData(n), grad |-> NoneV,
     requires_grad |-> requires_grad]

\* the shapes of the trees of k modules
Shapes(k) == {p \in [1..k -> 0..(k - 1)] : p[1] = 0 /\ \A i \in 2..k : p[i] \in 1..(i - 1)}

\* the trees of k modules, every module of either kind, with or without the flag
Trees(k) ==
    {[n \in 1..k |-> NewModule(n, p[n], kd[n], fl[n], TRUE)] :
        p \in Shapes(k), kd \in [1..k -> Kinds], fl \in [1..k -> BOOLEAN]}

\* the models that are trained: at most one normalization module, at most one
\* frozen parameter, the flag on the root
TrainModels ==
    {[n \in 1..TrainNodes |-> NewModule(n, p[n], IF n = nm THEN "norm" ELSE "other",
                                        n = 1, n # fz)] :
        p \in Shapes(TrainNodes), nm \in 0..TrainNodes, fz \in 0..TrainNodes}

OptimizerCfg == [type |-> "SGD", lr |-> 1, momentum |-> 0]

NoOptimizer == BuildOptimizer("none", <<>>, <<>>)
NoLoss == [g |-> <<>>, scale |-> 0]
NoSnap == [w |-> <<>>, m |-> <<>>]
NoResult == [output |-> <<>>, seen_args |-> <<>>, seen_kwargs |-> <<>>, ncalls |-> 0]
NoFwd == [kind |-> "none", n |-> 0, src |-> "none", dst |-> "none",
          convert_output |-> FALSE, args |-> <<>>, kwargs |-> <<>>, result |-> NoResult]

\* the gradients of a loss with respect to the parameters it depends on
Loss(m, used, g) ==
    [g |-> [n \in Nodes(m) |-> IF n \in used THEN Num(g) ELSE NoneV], scale |-> 1]

Losses(m) ==
    {Loss(m, Nodes(m), 2), Loss(m, Nodes(m), 200), Loss(m, {1}, 2), Loss(m, {Len(m)}, 2)}

PeerGrads == {-2, 2}

FwdValues == {Tensor("half", 1), Tensor("float", 2049), Tensor("long", 7), NonTensor}
FwdArgs == UNION {[1..k -> FwdValues] : k \in 0..MaxArgs}
FwdKwargs == {<<>>} \cup [{"k"} -> FwdValues]
FwdTypes == {"half", "float"}

InitCommon ==
    /\ hook_optimizer = OptimizerCfg
    /\ runner_optimizer = NoOptimizer
    /\ outputs = [loss |-> NoLoss]
    /\ scaled_loss = NoLoss
    /\ peer = NoneV
    /\ pc = "new"
    /\ calls = <<>>
    /\ iter = 0
    /\ snap = NoSnap
    /\ failed = "none"
    /\ fwd = NoFwd

Init ==
    /\ InitCommon
    /\ model \in TrainModels
    /\ hook \in [grad_clip : {NoneV, Num(ClipMax)}, loss_scale : {DefaultLossScale},
                 distributed : BOOLEAN]
    /\ set_to_none \in BOOLEAN

InitWrap ==
    /\ InitCommon
    /\ model \in UNION {Trees(k) : k \in 1..MaxNodes}
    /\ hook = [grad_clip |-> NoneV, loss_scale |-> DefaultLossScale, distributed |-> FALSE]
    /\ set_to_none = FALSE

InitForward ==
    /\ InitCommon
    /\ model \in Trees(1)
    /\ hook = [grad_clip |-> NoneV, loss_scale |-> DefaultLossScale, distributed |-> FALSE]
    /\ set_to_none = FALSE

---------------------------------------------------------------------------
(* Actions *)

W == runner_optimizer.params

\* the object a statement of after_train_iter acts on
Target(op) ==
    CASE op = "zero_grad_model" -> "model"
      [] op = "scale_loss" -> "loss"
      [] op = "backward" -> "scaled_loss"
      [] op = "copy_in_params" -> "model"
      [] OTHER -> "fp32_weight"

Call(op) == [op |-> op, on |-> Target(op)]

\* Fp16PrepareHook.before_run(runner)
BeforeRun ==
    /\ pc = "new"
    /\ LET r == before_run(model, hook_optimizer)
       IN /\ model' = r.model
          /\ hook_optimizer' = r.hook_optimizer
          /\ runner_optimizer' = r.optimizer
    /\ pc' = "idle"
    /\ UNCHANGED <<hook, outputs, scaled_loss, peer, calls, iter, snap, failed,
                   set_to_none, fwd>>

\* the runner's forward pass of one iteration; after_train_iter follows
RunIter ==
    /\ pc = "idle"
    /\ iter < MaxIter
    /\ \E l \in Losses(model) : outputs' = [loss |-> l]
    /\ iter' = iter + 1
    /\ calls' = <<>>
    /\ scaled_loss' = NoLoss
    /\ peer' = NoneV
    /\ snap' = [w |-> [i \in 1..Len(W) |-> W[i].data],
                m |-> [n \in Nodes(model) |-> model[n].data]]
    /\ runner_optimizer' = [runner_optimizer EXCEPT
                               !.params = [i \in 1..Len(W) |-> [W[i] EXCEPT !.ndiv = 0]]]
    /\ pc' = "zero_grad_model"
    /\ UNCHANGED <<model, hook_optimizer, hook, failed, set_to_none, fwd>>

\* the bookkeeping of a statement of after_train_iter that returns
Advance(op) ==
    /\ pc = op
    /\ pc' = NextPc(op)
    /\ calls' = Append(calls, Call(op))
    /\ UNCHANGED <<hook_optimizer, hook, outputs, iter, snap, failed, set_to_none, fwd>>

ModelZeroGrad ==
    /\ Advance("zero_grad_model")
    /\ model' = model_zero_grad(model)
    /\ UNCHANGED <<runner_optimizer, scaled_loss, peer>>

OptimizerZeroGrad ==
    /\ Advance("zero_grad_optimizer")
    /\ runner_optimizer' = [runner_optimizer EXCEPT !.params = optimizer_zero_grad(W)]
    /\ UNCHANGED <<model, scaled_loss, peer>>

ScaleLoss ==
    /\ Advance("scale_loss")
    /\ scaled_loss' = scale_loss(outputs.loss, hook.loss_scale)
    /\ UNCHANGED <<model, runner_optimizer, peer>>

Backward ==
    /\ Advance("backward")
    /\ model' = backward(model, scaled_loss)
    /\ UNCHANGED <<runner_optimizer, scaled_loss, peer>>

SetGrad ==
    /\ Advance("set_grad")
    /\ runner_optimizer' = [runner_optimizer EXCEPT !.params = set_grad(model, W, Len(W))]
    /\ UNCHANGED <<model, scaled_loss, peer>>

AllReduce ==
    /\ Advance("allreduce_grads")
    /\ \E h \in PeerGrads :
        /\ peer' = Num(h)
        /\ runner_optimizer' = [runner_optimizer EXCEPT
              !.params = allreduce_grads(W, Mul(Num(h), hook.loss_scale))]
    /\ UNCHANGED <<model, scaled_loss>>

Unscale ==
    /\ Advance("unscale")
    /\ runner_optimizer' = [runner_optimizer EXCEPT
                               !.params = unscale(W, hook.loss_scale, Len(W))]
    /\ UNCHANGED <<model, scaled_loss, peer>>

ClipGrads ==
    /\ Advance("clip_grads")
    /\ runner_optimizer' = [runner_optimizer EXCEPT
                               !.params = clip_grads(W, hook.grad_clip.v)]
    /\ UNCHANGED <<model, scaled_loss, peer>>

OptimizerStep ==
    /\ Advance("step")
    /\ runner_optimizer' = [runner_optimizer EXCEPT
                               !.params = optimizer_step(W, runner_optimizer.kwargs.lr, Len(W))]
    /\ UNCHANGED <<model, scaled_loss, peer>>

CopyInParams ==
    /\ Advance("copy_in_params")
    /\ model' = copy_in_params(model, W, Len(W))
    /\ UNCHANGED <<runner_optimizer, scaled_loss, peer>>

\* a statement of after_train_iter raises, after the first k parameters where it
\* loops over them; the exception leaves after_train_iter
Raise ==
    /\ pc \in HookPcs
    /\ pc' = "raised"
    /\ failed' = pc
    /\ calls' = Append(calls, Call(pc))
    /\ \E k \in 0..(Len(W) - 1) :
        /\ runner_optimizer' = [runner_optimizer EXCEPT !.params =
              CASE pc = "set_grad" -> set_grad(model, W, k)
                [] pc = "unscale" -> unscale(W, hook.loss_scale, k)
                [] pc = "step" -> optimizer_step(W, runner_optimizer.kwargs.lr, k)
                [] OTHER -> W]
        /\ model' = IF pc = "copy_in_params" THEN copy_in_params(model, W, k) ELSE model
    /\ UNCHANGED <<hook_optimizer, hook, outputs, scaled_loss, peer, iter, snap,
                   set_to_none, fwd>>

\* wrap_fp16_model(model), called on its own
WrapFp16Model ==
    /\ pc = "new"
    /\ model' = wrap_fp16_model(model)
    /\ pc' = "wrapped"
    /\ UNCHANGED <<hook_optimizer, runner_optimizer, hook, outputs, scaled_loss, peer,
                   calls, iter, snap, failed, set_to_none, fwd>>

\* a module of the wrapped model is called
ModuleForward ==
    /\ pc = "wrapped"
    /\ \E n \in Nodes(model), args \in FwdArgs, kwargs \in FwdKwargs :
        fwd' = [kind |-> "module", n |-> n, src |-> "half", dst |-> "float",
                convert_output |-> TRUE, args |-> args, kwargs |-> kwargs,
                result |-> module_forward(model, n, args, kwargs)]
    /\ UNCHANGED <<model, hook_optimizer, runner_optimizer, hook, outputs, scaled_loss,
                   peer, pc, calls, iter, snap, failed, set_to_none>>

\* the function patch_forward_module(old_forward, src_type, dst_type, convert_output)
\* returns is called
CallPatched ==
    /\ \E src \in FwdTypes, dst \in FwdTypes, co \in BOOLEAN,
          args \in FwdArgs, kwargs \in FwdKwargs :
        fwd' = [kind |-> "patched", n |-> 0, src |-> src, dst |-> dst,
                convert_output |-> co, args |-> args, kwargs |-> kwargs,
                result |-> new_forward(1, src, dst, co, args, kwargs)]
    /\ UNCHANGED <<model, hook_optimizer, runner_optimizer, hook, outputs, scaled_loss,
                   peer, pc, calls, iter, snap, failed, set_to_none>>

Next ==
    \/ BeforeRun
    \/ RunIter
    \/ ModelZeroGrad
    \/ OptimizerZeroGrad
    \/ ScaleLoss
    \/ Backward
    \/ SetGrad
    \/ AllReduce
    \/ Unscale
    \/ ClipGrads
    \/ OptimizerStep
    \/ CopyInParams
    \/ Raise

NextWrap == WrapFp16Model

NextForward == WrapFp16Model \/ ModuleForward \/ CallPatched

Spec == Init /\ [][Next]_vars
SpecWrap == InitWrap /\ [][NextWrap]_vars
SpecForward == InitForward /\ [][NextForward]_vars

---------------------------------------------------------------------------
(* Properties *)

P == Parameters(model)

Ops == [i \in 1..Len(calls) |-> calls[i].op]

IsPrefix(a, b) == Len(a) <= Len(b) /\ \A i \in 1..Len(a) : a[i] = b[i]

IterationDone == pc = "idle" /\ iter > 0

\* the statements of after_train_iter in the order the claim gives
ExpectedCalls ==
    <<"zero_grad_model", "zero_grad_optimizer", "scale_loss", "backward", "set_grad">>
    \o (IF hook.distributed THEN <<"allreduce_grads">> ELSE <<>>)
    \o <<"unscale">>
    \o (IF hook.grad_clip # NoneV THEN <<"clip_grads">> ELSE <<>>)
    \o <<"step", "copy_in_params">>

\* C1: the calls an iteration has made are always an initial part of the fixed order
\* (zero the gradients, scale, backpropagate, set_grad, all-reduce if distributed,
\* unscale, clip if asked, step, copy_in_params), the statement about to run is the
\* next of that order, and a finished iteration has made all of them.
C1_FixedOrder ==
    /\ IsPrefix(Ops, ExpectedCalls)
    /\ pc \in HookPcs => Len(calls) < Len(ExpectedCalls) /\ ExpectedCalls[Len(calls) + 1] = pc
    /\ IterationDone => Ops = ExpectedCalls

C1_Witness ==
    /\ IterationDone
    /\ iter = 2
    /\ hook.distributed
    /\ hook.grad_clip # NoneV
    /\ Len(calls) = 10

\* C2: once before_run has run, and through every iteration, the full-precision
\* weights and the model's parameters have the same length, and the i-th weight is
\* the clone of the i-th parameter.
C2_IndexAligned ==
    pc # "new" =>
        /\ Len(W) = Len(P)
        /\ \A i \in 1..Len(W) : W[i].src = P[i]

C2_Witness ==
    /\ IterationDone
    /\ iter = 2
    /\ \E n \in Nodes(model) : ~model[n].requires_grad
    /\ \E i \in 1..Len(W) : W[i].data # snap.w[i]

AllReduceAt == {i \in 1..Len(calls) : calls[i].op = "allreduce_grads"}

\* C3: in an iteration allreduce_grads is called at most once, never when
\* `distributed` is false and once when it is true; it is called on the
\* full-precision weights, right after set_grad and right before the division by
\* loss_scale.
C3_AllReduceOnce ==
    /\ Cardinality(AllReduceAt) <= 1
    /\ ~hook.distributed => AllReduceAt = {}
    /\ (hook.distributed /\ (IterationDone \/ pc \in {"unscale", "clip_grads", "step",
                                                        "copy_in_params"}))
          => Cardinality(AllReduceAt) = 1
    /\ \A i \in AllReduceAt :
          /\ i > 1
          /\ calls[i - 1].op = "set_grad"
          /\ calls[i].on = "fp32_weight"
          /\ i < Len(calls) => calls[i + 1].op = "unscale"

C3_Witness ==
    /\ IterationDone
    /\ hook.distributed
    /\ Cardinality(AllReduceAt) = 1
    /\ peer # NoneV

\* C4: before_run clones every parameter with the value it has before the model is
\* converted, gives each clone its parameter's requires_grad, builds runner.optimizer
\* of the class the config's 'type' names over exactly these clones with every other
\* entry of the config, and leaves the hook's stored config as it was.
C4_BeforeRun ==
    [][pc = "new" =>
        /\ Len(W') = Len(P)
        /\ \A i \in 1..Len(P) :
              /\ W'[i].src = P[i]
              /\ W'[i].data = model[P[i]].data
              /\ W'[i].requires_grad = model[P[i]].requires_grad
        /\ runner_optimizer'.cls = hook_optimizer.type
        /\ runner_optimizer'.kwargs = [k \in DOMAIN hook_optimizer \ {"type"} |-> hook_optimizer[k]]
        /\ hook_optimizer' = hook_optimizer
        /\ "type" \in DOMAIN hook_optimizer'
        /\ \A n \in Nodes(model) : model[n].dtype = "float"
    ]_vars

C4_Witness ==
    /\ pc = "idle"
    /\ iter = 0
    /\ \E i \in 1..Len(W) : model[P[i]].dtype = "half" /\ W[i].data # model[P[i]].data
    /\ \E i \in 1..Len(W) : ~W[i].requires_grad

WData == [i \in 1..Len(W) |-> W[i].data]
ModelData == [n \in Nodes(model) |-> model[n].data]

\* C5: when a statement of after_train_iter raises, it is the last call of the
\* iteration and was made once, nothing after it has run, and if it comes before
\* the optimizer step neither the full-precision weights nor the model's parameter
\* values differ from those at the start of the iteration.
C5_FailurePropagates ==
    pc = "raised" =>
        /\ Len(calls) > 0
        /\ calls[Len(calls)].op = failed
        /\ Cardinality({i \in 1..Len(calls) : calls[i].op = failed}) = 1
        /\ IsPrefix(Ops, ExpectedCalls)
        /\ failed \notin {"step", "copy_in_params"} => WData = snap.w /\ ModelData = snap.m

C5_Witness ==
    /\ pc = "raised"
    /\ failed = "unscale"
    /\ iter = 2
    /\ \E i \in 1..Len(W) : W[i].ndiv = 1
    /\ \E i \in 1..Len(W) : W[i].grad # NoneV /\ W[i].ndiv = 0

\* C6: after wrap_fp16_model every normalization module is in full precision with
\* its forward wrapped (once), every module that is neither one nor below one is in
\* half precision with its forward untouched, and every module that has
\* fp16_enabled has it True.
C6_WrapFp16Model ==
    pc = "wrapped" =>
        \A n \in Nodes(model) :
            /\ model[n].kind = "norm" => model[n].dtype = "float" /\ model[n].forward = 1
            /\ (model[n].kind # "norm" /\ ~HasNormAncestor(model, n))
                  => model[n].dtype = "half" /\ model[n].forward = 0
            /\ model[n].has_flag => model[n].fp16_enabled

C6_Witness ==
    /\ pc = "wrapped"
    /\ Len(model) = 3
    /\ model[1].kind = "other" /\ model[1].has_flag
    /\ model[2].kind = "norm" /\ model[2].parent = 1
    /\ model[3].kind = "norm" /\ model[3].parent = 2 /\ model[3].forward = 1

\* C7: a finished after_train_iter leaves every model parameter equal to its
\* full-precision weight converted to the parameter's precision; the optimizer step
\* leaves the model alone, and no statement but copy_in_params changes a model
\* parameter's value.
C7_ParamsFollowWeights ==
    [][/\ (pc = "copy_in_params" /\ pc' = "idle") =>
              /\ Len(W') = Len(P')
              /\ \A i \in 1..Len(P') : model'[P'[i]].data = Cast(W'[i].data, model'[P'[i]].dtype)
       /\ pc = "step" => model' = model
       /\ pc \in HookPcs \ {"copy_in_params"} => ModelData' = ModelData
    ]_vars

C7_Witness ==
    /\ IterationDone
    /\ iter = 2
    /\ \E i \in 1..Len(W) :
          /\ W[i].data # snap.w[i]
          /\ model[P[i]].data # W[i].data
          /\ model[P[i]].data # snap.m[P[i]]

JustUnscaled == pc # "raised" /\ Len(calls) > 0 /\ calls[Len(calls)].op = "unscale"

\* the gradient of the unscaled loss for weight i: the worker's own, averaged with
\* the other workers' in a distributed run
UnscaledGrad(i) ==
    LET g == outputs.loss.g[P[i]]
        local == IF g = NoneV THEN Num(0) ELSE g
    IN IF hook.distributed THEN Div(Add(local, peer), WorldSize) ELSE local

\* the scaled gradient of weight i does not fit its parameter's precision
Overflows(i) ==
    LET g == outputs.loss.g[P[i]]
    IN g # NoneV /\ Cast(Mul(g, hook.loss_scale), model[P[i]].dtype) = Inf

ScaledOnce == pc = "backward" => /\ scaled_loss.scale = outputs.loss.scale * hook.loss_scale
                                 /\ scaled_loss.g = outputs.loss.g

DividedOnce ==
    (JustUnscaled \/ pc \in {"clip_grads", "step", "copy_in_params"}) =>
        \A i \in 1..Len(W) : W[i].ndiv = IF W[i].grad = NoneV THEN 0 ELSE 1

\* C8 as stated: the loss is scaled once, every gradient that exists is divided
\* once, and the gradient clipping measures and the optimizer steps with is the
\* gradient of the unscaled loss.
C8_UnscaledGradient ==
    /\ ScaledOnce
    /\ DividedOnce
    /\ JustUnscaled => \A i \in 1..Len(W) : W[i].grad # NoneV => W[i].grad = UnscaledGrad(i)

\* C8 amended: as above, but where the scaled gradient overflows the parameter's
\* half precision the gradient is the non-finite value the overflow left.
C8_UnscaledUnlessOverflow ==
    /\ ScaledOnce
    /\ DividedOnce
    /\ JustUnscaled =>
          \A i \in 1..Len(W) : W[i].grad # NoneV =>
              W[i].grad = IF Overflows(i) THEN Inf ELSE UnscaledGrad(i)

C8_Witness ==
    /\ JustUnscaled
    /\ iter = 2
    /\ \E i \in 1..Len(W) : W[i].grad = Inf
    /\ \E i \in 1..Len(W) : W[i].grad # NoneV /\ W[i].grad # Inf /\ W[i].grad.v # 0
    /\ hook.distributed

\* what the statements after set_grad make of a gradient set_grad left
AfterSetGrad(x) ==
    LET reduced == IF hook.distributed
                   THEN Div(Add(x, Mul(peer, hook.loss_scale)), WorldSize) ELSE x
        divided == Div(reduced, hook.loss_scale)
    IN IF hook.grad_clip # NoneV THEN Clamp(divided, hook.grad_clip.v) ELSE divided

\* C10: the gradient a full-precision weight holds when the optimizer steps comes
\* from this iteration's loss alone: it is this iteration's scaled gradient, reduced,
\* unscaled and clipped, and for a parameter this iteration's loss gives no
\* gradient it is a cleared one (none, or a zeroed one).
C10_NoCarryOver ==
    pc = "step" =>
        \A i \in 1..Len(W) :
            LET g == outputs.loss.g[P[i]]
            IN IF ~model[P[i]].requires_grad THEN W[i].grad = NoneV
               ELSE IF g = NoneV THEN W[i].grad \in {NoneV, AfterSetGrad(Num(0))}
               ELSE W[i].grad = AfterSetGrad(Cast(Mul(g, hook.loss_scale), model[P[i]].dtype))

C10_Witness ==
    /\ pc = "step"
    /\ iter = 2
    /\ \E i \in 1..Len(W) :
          /\ model[P[i]].requires_grad
          /\ outputs.loss.g[P[i]] = NoneV
          /\ W[i].grad # NoneV
          /\ W[i].data # InitData(P[i])

ExpectCast(x, from, to) ==
    IF x.tensor /\ x.dtype = from
    THEN [tensor |-> TRUE, dtype |-> to, val |-> IF to = "half" THEN ToHalf(x.val) ELSE x.val]
    ELSE x

====
